---- MODULE Spec2Model ----
(***************************************************************************)
(* InsightDuck front end: the per-project wizard session store             *)
(* (ProjectProvider) and its copy in localStorage, the signed-in user      *)
(* (AuthProvider), the cleaning view that mounts one step component per    *)
(* actionStep (DataCleaningView), the step components and their backend    *)
(* calls, the EDA view's report fetch, and the dashboard's project         *)
(* selection and tab switch.                                               *)
(*                                                                         *)
(* A backend call is asynchronous: the handler that issues it keeps the    *)
(* closure of the render it was created in (the session's agentMessages    *)
(* and profile, and updateCurrentSession bound to the activeProjectId of   *)
(* that render) and applies it when the response arrives.  Requests in     *)
(* flight are therefore part of the state, each with what it captured.     *)
(***************************************************************************)
EXTENDS Integers, Sequences, FiniteSets, TLC

VARIABLES
    projectSessions,   \* ProjectProvider state: project id -> session object
    activeProjectId,   \* ProjectProvider state: the current project id, or Null
    activeTab,         \* Dashboard state: "Data Cleaning" or "EDA"
    isProjectLoading,  \* Dashboard state: a get-project-status call is pending
    isSessionModalOpen, \* Dashboard state: the session-expired modal is shown
    stepUI,            \* local state of the mounted step component
    inflight,          \* backend requests awaiting their response, issue order
    user,              \* AuthProvider state: the signed-in user's id, or Null
    authSession,       \* AuthProvider state session: {access_token}, if any
    isAuthenticated,   \* AuthProvider state
    authStorage,       \* localStorage: the items access_token and user
    storage,           \* localStorage: user id -> the stored session store
    edaUI,             \* local state of the mounted EdaView
    chartDataState,    \* EdaView state: chart id -> the chart data held
    loadingChartId,    \* EdaView state: the chart id being loaded, if any
    lastEvent,         \* history: the handler that ran last
    orphaned           \* history: calls whose component unmounted so far

vars == <<projectSessions, activeProjectId, activeTab, isProjectLoading,
          isSessionModalOpen, stepUI, inflight, user, authSession,
          isAuthenticated, authStorage, storage, edaUI, chartDataState,
          loadingChartId, lastEvent, orphaned>>

----------------------------------------------------------------------------
(* Bounds of the model *)

MaxLoad == 3        \* sessions in the store plus requests awaiting a response
MaxMessages == 7    \* log entries in the store, all sessions together
MaxErrors == 1      \* error entries in one log
MaxOrphans == 1     \* calls whose component unmounts before the response

----------------------------------------------------------------------------
(* Values *)

\* useState(null): no project is active.  Falsy, as the guards test it.
Null == 0

\* The project ids the backend hands out here: 42 is the id of the spec's
\* upload scenario.
ProjIds == {7, 42}

\* The backend's dataset summaries are opaque payloads.  "with_nulls" stands
\* for a summary whose null_counts is non-empty, "no_nulls" for one whose
\* null_counts is empty; "undefined" for a response without the field.
Summaries == {"with_nulls", "no_nulls"}

\* A profile as the view keeps it: the summary, and the project_name that
\* get-project-status / upload responses carry and step responses do not.
Profile(summary, name) == [summary |-> summary, project_name |-> name]

StatusProfiles == {Profile(s, "name") : s \in Summaries}

\* One type-conversion suggestion of /suggest-conversions/ (no `type` field).
Suggestion == [column_name |-> "col", current_type |-> "VARCHAR",
               suggested_type |-> "INTEGER"]

\* data.suggestions of a response: an empty list, or a list of one.
SuggestionLists == {<<>>, <<Suggestion>>}

\* A log entry {type, content}.  No handler reads a content, so a content
\* is kept as the name of the step that wrote it.
Msg(type, content) == [type |-> type, content |-> content]

\* entry.type === type, for any object in a log
HasType(entry, type) == "type" \in DOMAIN entry /\ entry.type = type

\* lastEvent: what ran (kind), for which endpoint or handler (op), on which
\* project id (pid), and the profile the response carried, if any (data).
Event(kind, op, pid, data) ==
    [kind |-> kind, op |-> op, pid |-> pid, data |-> data]

\* Sessions in the store plus requests in flight.
Load == Cardinality(DOMAIN projectSessions) + Len(inflight)

\* Log entries of the sessions ids of the store ps.
RECURSIVE Entries(_, _)
Entries(ps, ids) ==
    IF ids = {} THEN 0
    ELSE LET p == CHOOSE x \in ids : TRUE
         IN  (IF "agentMessages" \in DOMAIN ps[p]
              THEN Len(ps[p].agentMessages) ELSE 0)
             + Entries(ps, ids \ {p})

DefaultUI == [isProcessing |-> FALSE, error |-> "", isModalOpen |-> FALSE]

\* EdaView: useState(false) loading, useState("") error
DefaultEda == [loading |-> FALSE, error |-> ""]

\* The visualization suggestions of a suggest-llm-visualizations answer:
\* each has chart_type and parameters x_axis, y_axis ("" for a missing
\* y_axis).  The backend's answer here for a dataset with columns a and b.
ChartSuggestions ==
    << [chart_type |-> "histogram", x_axis |-> "a", y_axis |-> ""],
       [chart_type |-> "scatter_plot", x_axis |-> "a", y_axis |-> "b"] >>

\* `${chart_type}-${x_axis}-${y_axis || "null"}`
chartId(suggestion) ==
    << suggestion.chart_type, suggestion.x_axis,
       IF suggestion.y_axis = "" THEN "null" ELSE suggestion.y_axis >>

ChartIds == {chartId(ChartSuggestions[k]) : k \in DOMAIN ChartSuggestions}

\* useState({}) of chartDataState: no chart id has data.  The data of a
\* chart id is a sequence of at most one element.
DefaultCharts == [c \in ChartIds |-> <<>>]

\* user.id of the users of this browser.
UserIds == {1, 2}

----------------------------------------------------------------------------
(* ProjectProvider: the session store *)

\* {...a, ...b}
Spread(a, b) ==
    [f \in (DOMAIN a) \cup (DOMAIN b) |-> IF f \in DOMAIN b THEN b[f] ELSE a[f]]

\* prev[project_id] || {}
SessionOrEmpty(prev, pid) ==
    IF pid \in DOMAIN prev THEN prev[pid] ELSE [f \in {} |-> ""]

\* setActiveProject's updater as it would be without the defaults of a new
\* session.
setActiveProjectNoDefaults(prev, pid, profile) ==
    [p \in (DOMAIN prev) \cup {pid} |->
        IF p = pid
        THEN Spread(SessionOrEmpty(prev, pid), [profile |-> profile])
        ELSE prev[p]]

\* The setProjectSessions updater of setActiveProject({project_id, profile}).
setActiveProjectStore(prev, pid, profile) ==
    LET existingSession == SessionOrEmpty(prev, pid)
        session ==
            [profile |-> profile,
             agentMessages |->
                 IF "agentMessages" \in DOMAIN existingSession
                 THEN existingSession.agentMessages ELSE <<>>,
             actionStep |->
                 IF "actionStep" \in DOMAIN existingSession
                 THEN existingSession.actionStep ELSE "initial"]
    IN  [p \in (DOMAIN prev) \cup {pid} |-> IF p = pid THEN session ELSE prev[p]]

\* updateCurrentSession as it would be if it stored the updates in place of
\* the session.
updateCurrentSessionReplacing(prev, pid, updates) ==
    IF pid = Null THEN prev
    ELSE [p \in (DOMAIN prev) \cup {pid} |->
             IF p = pid THEN updates ELSE prev[p]]

\* updateCurrentSession(updates) of the render in which activeProjectId = pid.
updateCurrentSession(prev, pid, updates) ==
    IF pid = Null THEN prev
    ELSE [p \in (DOMAIN prev) \cup {pid} |->
             IF p = pid THEN Spread(SessionOrEmpty(prev, pid), updates)
             ELSE prev[p]]

\* currentSession of the context value, as an optional value.
HasCurrentSession(ps, act) == act # Null /\ act \in DOMAIN ps

----------------------------------------------------------------------------
(* DataCleaningView: which step component is mounted, and the onComplete   *)
(* handler it gives each one.  An optional argument (null / undefined) is  *)
(* a sequence of at most one element.                                      *)

\* newProfile || profile
OrElse(opt, default) == IF opt = <<>> THEN default ELSE opt[1]

\* What the Dashboard's <main> renders: "EdaView" on the EDA tab; on the
\* Data Cleaning tab the step component of the current session's actionStep,
\* none while the project is loading or without a current session.  The
\* Dashboard is rendered only for a signed-in user (ProtectedRoute).
MountedStep(ps, act, tab, loading, usr) ==
    IF usr = Null THEN "none"
    ELSE IF tab = "EDA" THEN "EdaView"
    ELSE IF ~loading /\ HasCurrentSession(ps, act)
    THEN IF "actionStep" \in DOMAIN ps[act] THEN ps[act].actionStep
         ELSE "undefined"
    ELSE "none"

Mounted == MountedStep(projectSessions, activeProjectId, activeTab,
                       isProjectLoading, user)

\* actionStep === "find_duplicates": onComplete(newMessages)
onCompleteFindDuplicates(agentMessages, newMessages) ==
    [agentMessages |-> agentMessages \o newMessages,
     actionStep |-> "handle_duplicates"]

\* actionStep === "handle_duplicates": onComplete(newProfile, newMessages)
onCompleteHandleDuplicates(profile, agentMessages, newProfile, newMessages) ==
    [profile |-> OrElse(newProfile, profile),
     agentMessages |-> agentMessages \o newMessages,
     actionStep |-> "suggest_types"]

\* actionStep === "suggest_types": onComplete(suggestions, newMessages)
onCompleteSuggestTypes(agentMessages, suggestions, newMessages) ==
    [typeSuggestions |-> suggestions,
     agentMessages |-> agentMessages \o newMessages,
     actionStep |-> "convert_types"]

\* actionStep === "convert_types": onComplete(newProfile, newMessages)
onCompleteConvertTypes(profile, agentMessages, newProfile, newMessages) ==
    [profile |-> OrElse(newProfile, profile),
     agentMessages |-> agentMessages \o newMessages,
     actionStep |-> "impute_nulls"]

\* actionStep === "impute_nulls": onComplete(newProfile, newMessages)
onCompleteImputeNulls(profile, agentMessages, newProfile, newMessages) ==
    [profile |-> OrElse(newProfile, profile),
     agentMessages |-> agentMessages \o newMessages,
     actionStep |-> "drop_columns"]

\* actionStep === "drop_columns": onComplete(newProfile, newMessages)
onCompleteDropColumns(profile, agentMessages, newProfile, newMessages) ==
    [profile |-> OrElse(newProfile, profile),
     agentMessages |-> agentMessages \o newMessages,
     actionStep |-> "export_csv"]

----------------------------------------------------------------------------
(* Requests in flight *)

\* What the handler of the mounted step component holds when it awaits a
\* response: activeProjectId, and the profile and agentMessages of the
\* render's currentSession.  alive: the issuing component is still mounted.
StepRequest(op) ==
    [op |-> op, pid |-> activeProjectId,
     profile |-> projectSessions[activeProjectId].profile,
     agentMessages |-> projectSessions[activeProjectId].agentMessages,
     alive |-> TRUE]

\* Dashboard.handleSelectProject awaits get-project-status for projectId.
SelectRequest(projectId) ==
    [op |-> "get-project-status", pid |-> projectId, alive |-> TRUE]

\* EdaView.fetchEdaData awaits one of its three calls; its
\* updateCurrentSession is the one of the render in which activeProjectId = pid.
EdaRequest(op, pid) == [op |-> op, pid |-> pid, alive |-> TRUE]

EdaOps == <<"eda-summary", "eda-insights", "suggest-llm-visualizations">>

\* op is one of the three calls of fetchEdaData.
IsEdaOp(op) == \E k \in DOMAIN EdaOps : EdaOps[k] = op

\* The component whose handler awaits the call op.
Owner(op) ==
    IF op = "get-project-status" THEN "Dashboard"
    ELSE IF IsEdaOp(op) \/ op = "get-chart-data" THEN "EdaView"
    ELSE "Step"

Remove(seq, i) == [j \in 1 .. (Len(seq) - 1) |-> IF j < i THEN seq[j] ELSE seq[j + 1]]

\* The components named in gone are unmounted: the state setters of their
\* pending handlers no longer reach any state.
Abandon(reqs, gone) ==
    [j \in DOMAIN reqs |->
        IF Owner(reqs[j].op) \in gone THEN [reqs[j] EXCEPT !.alive = FALSE]
        ELSE reqs[j]]

\* The members of a JSON object text, in the order JSON.stringify writes
\* them: integer-like keys ascending.
RECURSIVE Members(_, _)
Members(ps, ids) ==
    IF ids = {} THEN <<>>
    ELSE LET k == CHOOSE x \in ids : \A y \in ids : x <= y
         IN  << [key |-> k, value |-> ps[k]] >> \o Members(ps, ids \ {k})

\* JSON.stringify(projectSessions): a well-formed text listing the members.
stringify(ps) == [syntax |-> "ok", members |-> Members(ps, DOMAIN ps)]

\* A stored text that JSON.parse rejects with a SyntaxError.
Malformed == [syntax |-> "error", members |-> <<>>]

\* JSON.parse(text) of a well-formed text: the object with the listed
\* members (of two members with one key the last one wins).
parse(text) ==
    [k \in {text.members[j].key : j \in DOMAIN text.members} |->
        LET last == CHOOSE j \in DOMAIN text.members :
                        /\ text.members[j].key = k
                        /\ \A i \in DOMAIN text.members :
                               text.members[i].key = k => i <= j
        IN  text.members[last].value]

\* ProjectProvider's save effect: localStorage.setItem(key(user.id),
\* JSON.stringify(store)), for a signed-in user and a store with at least
\* one session.
SaveEffect(store, usr, ps) ==
    IF usr # Null /\ DOMAIN ps # {}
    THEN [store EXCEPT ![usr] = <<stringify(ps)>>]
    ELSE store

\* currentSession && currentSession.edaResults
HasEdaResults(ps, act) ==
    HasCurrentSession(ps, act) /\ "edaResults" \in DOMAIN ps[act]

\* The access token the backend issues to the user userId.
AccessToken(userId) == userId + 100

\* JSON.stringify(user) of the user object with the id userId.
UserText(userId) == [syntax |-> "ok", id |-> userId]

\* A text under the key user on which JSON.parse throws.
MalformedUser == [syntax |-> "error", id |-> Null]

\* AuthProvider.login(sessionData) for the user userId: both items are
\* stored; setSession, setUser, setIsAuthenticated(true).
LoginAuth(userId) ==
    [user |-> userId,
     session |-> <<AccessToken(userId)>>,
     isAuthenticated |-> TRUE,
     stored |-> [access_token |-> <<AccessToken(userId)>>,
                 user |-> <<UserText(userId)>>]]

\* logout as it would be without setIsAuthenticated(false).
LogoutAuthKeepsFlag(flag) ==
    [user |-> Null,
     session |-> <<>>,
     isAuthenticated |-> flag,
     stored |-> [access_token |-> <<>>, user |-> <<>>]]

\* AuthProvider.logout, called when isAuthenticated is flag: both items are
\* removed; setUser(null), setSession(null), setIsAuthenticated(false).
LogoutAuth(flag) ==
    [user |-> Null,
     session |-> <<>>,
     isAuthenticated |-> FALSE,
     stored |-> [access_token |-> <<>>, user |-> <<>>]]

\* AuthProvider's state and items after a handler that leaves the user usr:
\* login was called when a user appears, logout when the user goes (by the
\* Navbar button, or by makeAuthenticatedRequest on a 401).
AuthAfter(usr) ==
    IF usr # Null /\ usr # user THEN LoginAuth(usr)
    ELSE IF usr = Null /\ (user # Null \/ isAuthenticated)
    THEN LogoutAuth(isAuthenticated)
    ELSE [user |-> user, session |-> authSession,
          isAuthenticated |-> isAuthenticated, stored |-> authStorage]

\* ProtectedRoute renders the Dashboard.
DashboardRendered == isAuthenticated

\* One React commit and the effects that follow it.
\*  - A step component keeps its local state only while the same step stays
\*    mounted, EdaView while the EDA tab stays shown, the Dashboard while the
\*    user stays signed in; an unmounted component's pending handlers are
\*    orphaned, and a component mounted afresh starts from its useState
\*    defaults.
\*  - EdaView's effect runs fetchEdaData when the view mounts and when
\*    activeProjectId or currentSession changes, if a project is active and
\*    its session has no edaResults.
\*  - ProjectProvider's save effect writes the store.
\* modal is the value the handler gave to setIsSessionModalOpen.
CommitModal(ps, act, tab, loading, ui, reqs, ev, usr, eda, store, modal) ==
    LET now == MountedStep(ps, act, tab, loading, usr)
        stepKept == now = Mounted /\ now \notin {"none", "EdaView"}
        edaKept == now = "EdaView" /\ Mounted = "EdaView"
        dashKept == usr # Null /\ user # Null
        gone == (IF stepKept THEN {} ELSE {"Step"})
                \cup (IF edaKept THEN {} ELSE {"EdaView"})
                \cup (IF dashKept THEN {} ELSE {"Dashboard"})
        left == Cardinality({j \in DOMAIN reqs :
                                reqs[j].alive /\ Owner(reqs[j].op) \in gone})
        depsChanged ==
            \/ ~edaKept
            \/ act # activeProjectId
            \/ HasCurrentSession(ps, act)
                   # HasCurrentSession(projectSessions, activeProjectId)
            \/ /\ HasCurrentSession(ps, act)
               /\ ps[act] # projectSessions[activeProjectId]
        fetch == /\ now = "EdaView"
                 /\ depsChanged
                 /\ act # Null
                 /\ ~HasEdaResults(ps, act)
        pending == Abandon(reqs, gone)
    IN  /\ Entries(ps, DOMAIN ps) <= MaxMessages
        /\ orphaned + left <= MaxOrphans
        /\ fetch => Cardinality(DOMAIN ps) + Len(reqs) < MaxLoad
        /\ projectSessions' = ps
        /\ activeProjectId' = act
        /\ activeTab' = tab
        /\ isProjectLoading' = loading
        /\ isSessionModalOpen' = IF dashKept THEN modal ELSE FALSE
        /\ stepUI' = IF stepKept THEN ui ELSE DefaultUI
        /\ inflight' = IF fetch
                       THEN Append(pending, EdaRequest(EdaOps[1], act))
                       ELSE pending
        /\ edaUI' = IF fetch THEN [loading |-> TRUE, error |-> ""]
                    ELSE IF edaKept THEN eda ELSE DefaultEda
        /\ chartDataState' = IF edaKept THEN chartDataState ELSE DefaultCharts
        /\ loadingChartId' = IF edaKept THEN loadingChartId ELSE <<>>
        /\ user' = usr
        /\ authSession' = AuthAfter(usr).session
        /\ isAuthenticated' = AuthAfter(usr).isAuthenticated
        /\ authStorage' = AuthAfter(usr).stored
        /\ storage' = SaveEffect(store, usr, ps)
        /\ lastEvent' = ev
        /\ orphaned' = orphaned + left

\* A commit of a handler that leaves the session-expired modal as it is.
CommitAll(ps, act, tab, loading, ui, reqs, ev, usr, eda, store) ==
    CommitModal(ps, act, tab, loading, ui, reqs, ev, usr, eda, store,
                isSessionModalOpen)

\* A commit of a handler that changes neither the user nor EdaView's state.
Commit(ps, act, tab, loading, ui, reqs, ev) ==
    CommitAll(ps, act, tab, loading, ui, reqs, ev, user, edaUI, storage)

\* The setters of a step handler as they would be without the finally:
\* isProcessing stays true after the catch.
SettleWithoutFinally(r, error) ==
    IF r.alive THEN [stepUI EXCEPT !.error = error] ELSE stepUI

\* The finally/catch setters of a step handler, dead after unmount.
Settle(r, error) ==
    IF r.alive THEN [stepUI EXCEPT !.isProcessing = FALSE, !.error = error]
    ELSE stepUI

\* A handler starts its call: setIsProcessing(true); setError('').
Issue(op) ==
    /\ Load < MaxLoad
    /\ Commit(projectSessions, activeProjectId, activeTab, isProjectLoading,
              [isProcessing |-> TRUE, error |-> "", isModalOpen |-> FALSE],
              Append(inflight, StepRequest(op)),
              Event("request", op, activeProjectId, <<>>))

\* onComplete of the rendered step, called synchronously from a click.
Complete(updates) ==
    Commit(updateCurrentSession(projectSessions, activeProjectId, updates),
           activeProjectId, activeTab, isProjectLoading,
           [stepUI EXCEPT !.isModalOpen = FALSE], inflight,
           Event("skip", Mounted, activeProjectId, <<>>))

CurrentSession == projectSessions[activeProjectId]

hasSuggestions ==
    /\ "typeSuggestions" \in DOMAIN CurrentSession
    /\ Len(CurrentSession.typeSuggestions) > 0

hasNulls == CurrentSession.profile.summary = "with_nulls"

\* actionStep === "initial": onComplete(newProfile, newMessages)
onCompleteInitial(agentMessages, newProfile, newMessages) ==
    [profile |-> newProfile,
     agentMessages |-> agentMessages \o newMessages,
     actionStep |-> "find_duplicates"]

----------------------------------------------------------------------------
(* Init *)

Init ==
    /\ projectSessions = <<>>
    /\ activeProjectId = Null
    /\ activeTab = "Data Cleaning"
    /\ isProjectLoading = FALSE
    /\ isSessionModalOpen = FALSE
    /\ stepUI = DefaultUI
    /\ inflight = <<>>
    /\ user = 1
    /\ authSession = LoginAuth(1).session
    /\ isAuthenticated = TRUE
    /\ authStorage = LoginAuth(1).stored
    /\ storage = [u \in UserIds |-> <<>>]
    /\ edaUI = DefaultEda
    /\ chartDataState = DefaultCharts
    /\ loadingChartId = <<>>
    /\ lastEvent = Event("done", "login", Null, <<>>)
    /\ orphaned = 0

----------------------------------------------------------------------------
(* Dashboard and upload *)

\* Sidebar project button -> Dashboard.handleSelectProject(projectId)
handleSelectProject(projectId) ==
    /\ user # Null
    /\ Load < MaxLoad
    /\ Commit(projectSessions, activeProjectId, activeTab, TRUE, stepUI,
              Append(inflight, SelectRequest(projectId)),
              Event("request", "get-project-status", projectId, <<>>))

\* get-project-status answers {project_id, profile}: setActiveProject(data)
SelectProjectLoaded(i, profile) ==
    /\ i \in DOMAIN inflight
    /\ inflight[i].op = "get-project-status"
    /\ Commit(setActiveProjectStore(projectSessions, inflight[i].pid, profile),
              inflight[i].pid, activeTab,
              IF inflight[i].alive THEN FALSE ELSE isProjectLoading,
              stepUI, Remove(inflight, i),
              Event("done", "get-project-status", inflight[i].pid, <<profile>>))

\* get-project-status fails (network, non-2xx, 401): only the finally runs
SelectProjectFailed(i) ==
    /\ i \in DOMAIN inflight
    /\ inflight[i].op = "get-project-status"
    /\ Commit(projectSessions, activeProjectId, activeTab,
              IF inflight[i].alive THEN FALSE ELSE isProjectLoading,
              stepUI, Remove(inflight, i),
              Event("failed", "get-project-status", inflight[i].pid, <<>>))

\* UploadModal.handleFileUpload / handleKaggleImport, response ok: the
\* backend has created project_id; setActiveProject(data)
handleFileUpload(project_id, profile) ==
    /\ user # Null
    /\ project_id \notin DOMAIN projectSessions
    /\ Load < MaxLoad
    /\ Commit(setActiveProjectStore(projectSessions, project_id, profile),
              project_id, activeTab, isProjectLoading, stepUI, inflight,
              Event("done", "upload-csv", project_id, <<profile>>))

\* Navbar tab buttons
setActiveTab(tab) ==
    /\ user # Null
    /\ tab # activeTab
    /\ Commit(projectSessions, activeProjectId, tab, isProjectLoading, stepUI,
              inflight, Event("tab", tab, activeProjectId, <<>>))

----------------------------------------------------------------------------
(* Step components.  A response action takes the request it answers by its  *)
(* position i in inflight.                                                 *)

Clickable(step) == Mounted = step /\ ~stepUI.isProcessing

Answer(i, op) == i \in DOMAIN inflight /\ inflight[i].op = op

\* The current messages of the session a handler's setter is bound to.
Log(pid) ==
    IF pid \in DOMAIN projectSessions /\ "agentMessages" \in DOMAIN projectSessions[pid]
    THEN projectSessions[pid].agentMessages ELSE <<>>

\* A response handler finishes: its session update, then catch/finally.
Finish(i, kind, data, ps, error) ==
    Commit(ps, activeProjectId, activeTab, isProjectLoading,
           Settle(inflight[i], error), Remove(inflight, i),
           Event(kind, inflight[i].op, inflight[i].pid, data))

\* --- AutoCleanStep ---
handleAutoClean ==
    /\ Clickable("initial")
    /\ Issue("auto-clean")

\* The auto-clean response as it would be if its update went to the project
\* that is active when it arrives.
AutoCleanDoneActive(i, summary) ==
    /\ Answer(i, "auto-clean")
    /\ LET r == inflight[i]
           updatedProfile == Profile(summary, r.profile.project_name)
           newMessages == <<Msg("log", "initial")>>
       IN  Finish(i, "done", <<Profile(summary, "undefined")>>,
                  updateCurrentSession(projectSessions, activeProjectId,
                        onCompleteInitial(r.agentMessages, updatedProfile,
                                          newMessages)),
                  stepUI.error)

AutoCleanDone(i, summary) ==
    /\ Answer(i, "auto-clean")
    /\ LET r == inflight[i]
           updatedProfile == Profile(summary, r.profile.project_name)
           newMessages == <<Msg("log", "initial")>>
       IN  Finish(i, "done", <<Profile(summary, "undefined")>>,
                  updateCurrentSession(projectSessions, r.pid,
                        onCompleteInitial(r.agentMessages, updatedProfile,
                                          newMessages)),
                  stepUI.error)

AutoCleanFailed(i) ==
    /\ Answer(i, "auto-clean")
    /\ Cardinality({j \in DOMAIN Log(inflight[i].pid) :
                        HasType(Log(inflight[i].pid)[j], "error")}) < MaxErrors
    /\ LET r == inflight[i]
       IN  Finish(i, "failed", <<>>,
                  updateCurrentSession(projectSessions, r.pid,
                        [agentMessages |->
                            Append(Log(r.pid), Msg("error", "initial"))]),
                  stepUI.error)

\* --- FindDuplicatesStep ---
handleFindDuplicates ==
    /\ Clickable("find_duplicates")
    /\ Issue("find-duplicates")

FindDuplicatesDone(i) ==
    /\ Answer(i, "find-duplicates")
    /\ LET r == inflight[i]
           newMessages == <<Msg("info", "find_duplicates")>>
       IN  Finish(i, "done", <<>>,
                  updateCurrentSession(projectSessions, r.pid,
                        onCompleteFindDuplicates(r.agentMessages, newMessages)),
                  stepUI.error)

FindDuplicatesFailed(i) ==
    /\ Answer(i, "find-duplicates")
    /\ Finish(i, "failed", <<>>, projectSessions, "Failed to find duplicates")

\* setIsModalOpen(value) of the mounted step component
SetModal(value) ==
    Commit(projectSessions, activeProjectId, activeTab, isProjectLoading,
           [stepUI EXCEPT !.isModalOpen = value], inflight,
           Event("modal", Mounted, activeProjectId, <<>>))

\* A step's response carries new_profile_summary, or not.
NewProfile(summary) ==
    IF summary = <<>> THEN <<>> ELSE <<Profile(summary[1], "undefined")>>

\* --- HandleDuplicatesStep ---
OpenHandleDuplicates ==
    /\ Clickable("handle_duplicates")
    /\ ~stepUI.isModalOpen
    /\ SetModal(TRUE)

handleConfirm ==
    /\ Mounted = "handle_duplicates"
    /\ stepUI.isModalOpen
    /\ Issue("handle-duplicates")

\* handleCancel as it would be if it passed no message to onComplete.
handleCancelSilently ==
    /\ Mounted = "handle_duplicates"
    /\ stepUI.isModalOpen
    /\ Complete(onCompleteHandleDuplicates(
            CurrentSession.profile, CurrentSession.agentMessages, <<>>, <<>>))

handleCancel ==
    /\ Mounted = "handle_duplicates"
    /\ stepUI.isModalOpen
    /\ Complete(onCompleteHandleDuplicates(
            CurrentSession.profile, CurrentSession.agentMessages, <<>>,
            <<Msg("info", "handle_duplicates")>>))

HandleDuplicatesDone(i, summary) ==
    /\ Answer(i, "handle-duplicates")
    /\ LET r == inflight[i]
           newMessages == <<Msg("info", "handle_duplicates")>>
       IN  Finish(i, "done", NewProfile(summary),
                  updateCurrentSession(projectSessions, r.pid,
                        onCompleteHandleDuplicates(r.profile, r.agentMessages,
                                                   NewProfile(summary), newMessages)),
                  stepUI.error)

HandleDuplicatesFailed(i) ==
    /\ Answer(i, "handle-duplicates")
    /\ Finish(i, "failed", <<>>, projectSessions, "Failed to handle duplicates")

\* --- SuggestDataTypesStep ---
handleSuggestDataTypes ==
    /\ Clickable("suggest_types")
    /\ Issue("suggest-conversions")

\* The step calls onComplete(newMessages, data.suggestions); the view's
\* handler takes (suggestions, newMessages).
SuggestDataTypesDone(i, suggestions) ==
    /\ Answer(i, "suggest-conversions")
    /\ LET r == inflight[i]
           newMessages == <<Msg("info", "suggest_types")>>
       IN  Finish(i, "done", <<>>,
                  updateCurrentSession(projectSessions, r.pid,
                        onCompleteSuggestTypes(r.agentMessages, newMessages,
                                               suggestions)),
                  stepUI.error)

SuggestDataTypesFailed(i) ==
    /\ Answer(i, "suggest-conversions")
    /\ Finish(i, "failed", <<>>, projectSessions, "Failed to suggest data types")

\* --- ConvertTypesStep ---
ClickConvertTypes ==
    /\ Clickable("convert_types")
    /\ IF hasSuggestions
       THEN ~stepUI.isModalOpen /\ SetModal(TRUE)
       ELSE Complete(onCompleteConvertTypes(
                CurrentSession.profile, CurrentSession.agentMessages, <<>>,
                <<Msg("info", "convert_types")>>))

handleConfirmConversions(selected) ==
    /\ Mounted = "convert_types"
    /\ stepUI.isModalOpen
    /\ hasSuggestions
    /\ IF selected = 0
       THEN Complete(onCompleteConvertTypes(
                CurrentSession.profile, CurrentSession.agentMessages, <<>>,
                <<Msg("info", "convert_types")>>))
       ELSE Issue("convert-types")

ConvertTypesDone(i, summary) ==
    /\ Answer(i, "convert-types")
    /\ LET r == inflight[i]
           newMessages == <<Msg("info", "convert_types")>>
       IN  Finish(i, "done", NewProfile(summary),
                  updateCurrentSession(projectSessions, r.pid,
                        onCompleteConvertTypes(r.profile, r.agentMessages,
                                               NewProfile(summary), newMessages)),
                  stepUI.error)

ConvertTypesFailed(i) ==
    /\ Answer(i, "convert-types")
    /\ Finish(i, "failed", <<>>, projectSessions, "Failed to apply conversions.")

\* --- ImputeNullsStep ---
ClickImputeNulls ==
    /\ Clickable("impute_nulls")
    /\ IF hasNulls
       THEN ~stepUI.isModalOpen /\ SetModal(TRUE)
       ELSE Complete(onCompleteImputeNulls(
                CurrentSession.profile, CurrentSession.agentMessages, <<>>,
                <<Msg("info", "impute_nulls")>>))

handleConfirmImputations(selected) ==
    /\ Mounted = "impute_nulls"
    /\ stepUI.isModalOpen
    /\ hasNulls
    /\ IF selected = 0
       THEN Complete(onCompleteImputeNulls(
                CurrentSession.profile, CurrentSession.agentMessages, <<>>,
                <<Msg("info", "impute_nulls")>>))
       ELSE Issue("impute-nulls")

ImputeNullsDone(i, summary) ==
    /\ Answer(i, "impute-nulls")
    /\ LET r == inflight[i]
           newMessages == <<Msg("log", "impute_nulls")>>
       IN  Finish(i, "done", NewProfile(summary),
                  updateCurrentSession(projectSessions, r.pid,
                        onCompleteImputeNulls(r.profile, r.agentMessages,
                                              NewProfile(summary), newMessages)),
                  stepUI.error)

ImputeNullsFailed(i) ==
    /\ Answer(i, "impute-nulls")
    /\ Finish(i, "failed", <<>>, projectSessions, "Failed to impute values.")

\* --- DropColumnsStep ---
OpenDropColumns ==
    /\ Clickable("drop_columns")
    /\ ~stepUI.isModalOpen
    /\ SetModal(TRUE)

handleConfirmDrop(selected) ==
    /\ Mounted = "drop_columns"
    /\ stepUI.isModalOpen
    /\ IF selected = 0
       THEN Complete(onCompleteDropColumns(
                CurrentSession.profile, CurrentSession.agentMessages, <<>>,
                <<Msg("info", "drop_columns")>>))
       ELSE Issue("drop-columns")

DropColumnsDone(i, summary) ==
    /\ Answer(i, "drop-columns")
    /\ LET r == inflight[i]
           newMessages == <<Msg("info", "drop_columns")>>
       IN  Finish(i, "done", NewProfile(summary),
                  updateCurrentSession(projectSessions, r.pid,
                        onCompleteDropColumns(r.profile, r.agentMessages,
                                              NewProfile(summary), newMessages)),
                  stepUI.error)

DropColumnsFailed(i) ==
    /\ Answer(i, "drop-columns")
    /\ Finish(i, "failed", <<>>, projectSessions, "Failed to drop columns.")

\* --- ExportCsvStep ---  (its isDownloading is kept in stepUI.isProcessing)
\* handleDownload awaits export-csv; it reads nothing of the session.
ExportRequest == [op |-> "export-csv", pid |-> activeProjectId, alive |-> TRUE]

OpenExportCsv ==
    /\ Mounted = "export_csv"
    /\ ~stepUI.isModalOpen
    /\ SetModal(TRUE)

\* The modal's Download button, disabled={isDownloading}; the modal stays open.
handleDownload ==
    /\ Mounted = "export_csv"
    /\ stepUI.isModalOpen
    /\ ~stepUI.isProcessing
    /\ Load < MaxLoad
    /\ Commit(projectSessions, activeProjectId, activeTab, isProjectLoading,
              [stepUI EXCEPT !.isProcessing = TRUE, !.error = ""],
              Append(inflight, ExportRequest),
              Event("request", "export-csv", activeProjectId, <<>>))

\* response ok: the file is saved by the browser; setIsModalOpen(false),
\* then the finally.
ExportCsvDone(i) ==
    /\ Answer(i, "export-csv")
    /\ Commit(projectSessions, activeProjectId, activeTab, isProjectLoading,
              IF inflight[i].alive
              THEN [stepUI EXCEPT !.isModalOpen = FALSE, !.isProcessing = FALSE]
              ELSE stepUI,
              Remove(inflight, i),
              Event("done", "export-csv", inflight[i].pid, <<>>))

ExportCsvFailed(i) ==
    /\ Answer(i, "export-csv")
    /\ Finish(i, "failed", <<>>, projectSessions, "Failed to export CSV.")

\* Modal onClose of the convert / impute / drop / export modals:
\* setIsModalOpen(false)
CloseModal ==
    /\ Mounted \in {"convert_types", "impute_nulls", "drop_columns",
                    "export_csv"}
    /\ stepUI.isModalOpen
    /\ SetModal(FALSE)

----------------------------------------------------------------------------
(* EdaView *)

\* {summary, insights, suggestions} of the three responses, the last of
\* which carries the list suggestions.
EdaResults(suggestions) ==
    [summary |-> "summaryData", insights |-> "insightsData.insights",
     suggestions |-> suggestions]

\* The results when the backend suggests no visualization.
newEdaResults == EdaResults(<<>>)

\* The position of the call op among the three of fetchEdaData.
EdaStage(op) == CHOOSE k \in DOMAIN EdaOps : EdaOps[k] = op

\* One of fetchEdaData's calls answers ok: the next call is made, and after
\* the third, which answers the list suggestions,
\* updateCurrentSession({edaResults}) and the finally run.
EdaCallAnswered(i, suggestions) ==
    /\ i \in DOMAIN inflight
    /\ IsEdaOp(inflight[i].op)
    /\ LET r == inflight[i]
           k == EdaStage(r.op)
       IN  IF k < Len(EdaOps)
           THEN Commit(projectSessions, activeProjectId, activeTab,
                       isProjectLoading, stepUI,
                       [inflight EXCEPT ![i].op = EdaOps[k + 1]],
                       Event("done", r.op, r.pid, <<>>))
           ELSE CommitAll(updateCurrentSession(projectSessions, r.pid,
                              [edaResults |-> EdaResults(suggestions)]),
                          activeProjectId, activeTab, isProjectLoading, stepUI,
                          Remove(inflight, i), Event("done", r.op, r.pid, <<>>), user,
                          IF r.alive THEN [edaUI EXCEPT !.loading = FALSE]
                          ELSE edaUI,
                          storage)

\* The same with a backend that suggests no visualization.
EdaCallDone(i) == EdaCallAnswered(i, <<>>)

\* A failing call as it would be if the catch stored the results obtained so
\* far.
EdaCallFailedPartial(i) ==
    /\ i \in DOMAIN inflight
    /\ IsEdaOp(inflight[i].op)
    /\ LET r == inflight[i]
       IN  CommitAll(updateCurrentSession(projectSessions, r.pid,
                         [edaResults |-> newEdaResults]),
                     activeProjectId, activeTab,
                     isProjectLoading, stepUI, Remove(inflight, i),
                     Event("failed", r.op, r.pid, <<>>), user,
                     IF r.alive
                     THEN [loading |-> FALSE, error |-> "Failed to fetch"]
                     ELSE edaUI,
                     storage)

\* One of fetchEdaData's calls fails: setError(err.message), then the finally.
EdaCallFailed(i) ==
    /\ i \in DOMAIN inflight
    /\ IsEdaOp(inflight[i].op)
    /\ LET r == inflight[i]
       IN  CommitAll(projectSessions, activeProjectId, activeTab,
                     isProjectLoading, stepUI, Remove(inflight, i),
                     Event("failed", r.op, r.pid, <<>>), user,
                     IF r.alive
                     THEN [loading |-> FALSE, error |-> "Failed to fetch"]
                     ELSE edaUI,
                     storage)

\* The "Try Again" button of EdaView's error screen: onClick={fetchEdaData}
fetchEdaData ==
    /\ Mounted = "EdaView"
    /\ HasCurrentSession(projectSessions, activeProjectId)
    /\ edaUI.error # ""
    /\ ~HasEdaResults(projectSessions, activeProjectId)
    /\ Load < MaxLoad
    /\ CommitAll(projectSessions, activeProjectId, activeTab,
                 isProjectLoading, stepUI,
                 Append(inflight, EdaRequest(EdaOps[1], activeProjectId)),
                 Event("request", EdaOps[1], activeProjectId, <<>>), user,
                 [loading |-> TRUE, error |-> ""], storage)

----------------------------------------------------------------------------
(* EdaView's charts: VisualizationCard and fetchChartData *)

\* EdaView renders the report, with one VisualizationCard per suggestion.
ChartsShown ==
    /\ Mounted = "EdaView"
    /\ HasCurrentSession(projectSessions, activeProjectId)
    /\ edaUI.error = ""
    /\ ~edaUI.loading
    /\ HasEdaResults(projectSessions, activeProjectId)

\* The suggestions of the report that is shown.
ShownSuggestions ==
    IF ChartsShown THEN projectSessions[activeProjectId].edaResults.suggestions
    ELSE <<>>

\* The cards whose effect issues a request in this render: the card has no
\* chartData, and fetchChartData's guard
\* (chartDataState[chartId] || loadingChartId === chartId) lets it pass.
FetchingCards ==
    {k \in DOMAIN ShownSuggestions :
        /\ chartDataState[chartId(ShownSuggestions[k])] = <<>>
        /\ loadingChartId # <<chartId(ShownSuggestions[k])>>}

ChartRequest(suggestion) ==
    [op |-> "get-chart-data", pid |-> activeProjectId, alive |-> TRUE,
     chartId |-> chartId(suggestion)]

\* The requests of the cards ks, in the order of the cards.
RECURSIVE ChartRequests(_)
ChartRequests(ks) ==
    IF ks = {} THEN <<>>
    ELSE LET k == CHOOSE x \in ks : \A y \in ks : x <= y
         IN  <<ChartRequest(ShownSuggestions[k])>> \o ChartRequests(ks \ {k})

\* The effects of the VisualizationCards after one render of EdaView.  Every
\* card without chartData calls the fetchChartData of that render; each call
\* that passes the guard calls setLoadingChartId(chartId) and issues
\* get-chart-data, and the last setLoadingChartId wins.  The render that
\* follows gives the cards a new fetchChartData, so their effects run again:
\* one step here is one such render.
VisualizationCardEffects ==
    /\ FetchingCards # {}
    /\ Load + Cardinality(FetchingCards) <= MaxLoad
    /\ LET last == CHOOSE k \in FetchingCards : \A j \in FetchingCards : j <= k
       IN  /\ inflight' = inflight \o ChartRequests(FetchingCards)
           /\ loadingChartId' = <<chartId(ShownSuggestions[last])>>
           /\ lastEvent' = Event("request", "get-chart-data", activeProjectId,
                                 <<chartId(ShownSuggestions[last])>>)
    /\ UNCHANGED <<projectSessions, activeProjectId, activeTab,
                   isProjectLoading, isSessionModalOpen, stepUI, user, authSession,
                   isAuthenticated, authStorage, storage, edaUI,
                   chartDataState, orphaned>>

\* What a get-chart-data call leaves under its chart id: the chart_data of
\* the project the request named, or {error: message}.
ChartData(pid, failed) == [pid |-> pid, error |-> failed]

\* get-chart-data has answered (ok, or not): setChartDataState stores the
\* data or the error under the request's chart id, and the finally calls
\* setLoadingChartId(null).  The setters of an unmounted EdaView reach
\* nothing.
ChartCallSettled(i, failed) ==
    /\ Answer(i, "get-chart-data")
    /\ LET r == inflight[i]
       IN  /\ chartDataState' =
                  IF r.alive
                  THEN [chartDataState EXCEPT
                            ![r.chartId] = <<ChartData(r.pid, failed)>>]
                  ELSE chartDataState
           /\ loadingChartId' = IF r.alive THEN <<>> ELSE loadingChartId
           /\ inflight' = Remove(inflight, i)
           /\ lastEvent' = Event(IF failed THEN "failed" ELSE "done",
                                 "get-chart-data", r.pid, <<r.chartId>>)
    /\ UNCHANGED <<projectSessions, activeProjectId, activeTab,
                   isProjectLoading, isSessionModalOpen, stepUI, user, authSession,
                   isAuthenticated, authStorage, storage, edaUI, orphaned>>

ChartDataLoaded(i) == ChartCallSettled(i, FALSE)

ChartDataFailed(i) == ChartCallSettled(i, TRUE)

----------------------------------------------------------------------------
(* AuthProvider, and ProjectProvider's load effect *)

\* Navbar's logout button -> AuthProvider.logout: the Dashboard unmounts.
\* ProjectProvider stays mounted and keeps its state.
logout ==
    /\ user # Null
    /\ CommitAll(projectSessions, activeProjectId, "Data Cleaning", FALSE,
                 DefaultUI, inflight, Event("done", "logout", Null, <<>>), Null,
                 DefaultEda, storage)

\* The load effect without its try / catch: JSON.parse throws out of the
\* effect and setProjectSessions is not reached.
LoadEffectUncaught(store, usr, ps) ==
    LET storedSessions == store[usr]
    IN  IF storedSessions = <<>> THEN [sessions |-> ps, threw |-> FALSE]
        ELSE IF storedSessions[1].syntax = "ok"
        THEN [sessions |-> parse(storedSessions[1]), threw |-> FALSE]
        ELSE [sessions |-> ps, threw |-> TRUE]

\* ProjectProvider's load effect for the identified user usr, run in a render
\* whose store is ps: the store it leaves, and whether an exception leaves
\* the effect.  A text under the user's key is parsed inside try; the catch
\* logs to the console and calls setProjectSessions({}).  With no text under
\* the key nothing is set.
LoadEffect(store, usr, ps) ==
    LET storedSessions == store[usr]
    IN  IF storedSessions = <<>> THEN [sessions |-> ps, threw |-> FALSE]
        ELSE IF storedSessions[1].syntax = "ok"
        THEN [sessions |-> parse(storedSessions[1]), threw |-> FALSE]
        ELSE [sessions |-> <<>>, threw |-> FALSE]

\* AuthPage -> AuthProvider.login(sessionData) for the user userId.  The
\* effects of ProjectProvider then run in order with the store of this
\* render: the load effect, then the save effect, which writes the store of
\* this render under the user's key; the render with the store set by the
\* load effect runs the save effect again.  An exception that leaves an
\* effect is recorded as a failed login.
login(userId) ==
    /\ user = Null
    /\ LET loaded == LoadEffect(storage, userId, projectSessions)
       IN  CommitAll(loaded.sessions, activeProjectId, "Data Cleaning", FALSE,
                     DefaultUI, inflight,
                     Event(IF loaded.threw THEN "failed" ELSE "done",
                           "login", Null, <<>>),
                     userId, DefaultEda,
                     SaveEffect(storage, userId, projectSessions))

\* A call answers 401: makeAuthenticatedRequest calls logout() and hands the
\* response to the caller.  handleSelectProject then calls
\* setIsSessionModalOpen(true) and returns; a step handler or fetchEdaData
\* throws on !response.ok into its catch: setError of its component, and for
\* AutoCleanStep an error entry in the log.  logout() unmounts the Dashboard
\* with everything it holds.
Unauthorized(i) ==
    /\ i \in DOMAIN inflight
    /\ LET r == inflight[i]
           ps == IF r.op = "auto-clean"
                 THEN updateCurrentSession(projectSessions, r.pid,
                          [agentMessages |->
                              Append(Log(r.pid), Msg("error", "initial"))])
                 ELSE projectSessions
       IN  /\ r.op = "auto-clean" =>
                  Cardinality({j \in DOMAIN Log(r.pid) :
                                  HasType(Log(r.pid)[j], "error")}) < MaxErrors
           /\ CommitModal(ps, activeProjectId, "Data Cleaning", FALSE,
                          DefaultUI, Remove(inflight, i),
                          Event("401", r.op, r.pid, <<>>), Null, DefaultEda,
                          storage, r.op = "get-project-status" /\ r.alive)

\* Sidebar.fetchProjects, started when the Sidebar mounts, answers 401:
\* logout() in makeAuthenticatedRequest, then onSessionExpired().
fetchProjectsUnauthorized ==
    /\ user # Null
    /\ CommitModal(projectSessions, activeProjectId, "Data Cleaning", FALSE,
                   DefaultUI, inflight, Event("401", "projects", Null, <<>>),
                   Null, DefaultEda, storage, TRUE)

----------------------------------------------------------------------------
(* The application *)

SummaryOpts == {<<>>} \cup {<<s>> : s \in Summaries}

\* The wizard: a signed-in user on the Data Cleaning tab selects and uploads
\* projects and works through the cleaning steps.
Next ==
    \/ \E p \in ProjIds : handleSelectProject(p)
    \/ \E i \in DOMAIN inflight, pr \in StatusProfiles : SelectProjectLoaded(i, pr)
    \/ \E i \in DOMAIN inflight : SelectProjectFailed(i)
    \/ \E p \in ProjIds, pr \in StatusProfiles : handleFileUpload(p, pr)
    \/ handleAutoClean
    \/ \E i \in DOMAIN inflight, s \in Summaries : AutoCleanDone(i, s)
    \/ \E i \in DOMAIN inflight : AutoCleanFailed(i)
    \/ handleFindDuplicates
    \/ \E i \in DOMAIN inflight : FindDuplicatesDone(i)
    \/ \E i \in DOMAIN inflight : FindDuplicatesFailed(i)
    \/ OpenHandleDuplicates
    \/ handleConfirm
    \/ handleCancel
    \/ \E i \in DOMAIN inflight, s \in SummaryOpts : HandleDuplicatesDone(i, s)
    \/ \E i \in DOMAIN inflight : HandleDuplicatesFailed(i)
    \/ handleSuggestDataTypes
    \/ \E i \in DOMAIN inflight, sg \in SuggestionLists : SuggestDataTypesDone(i, sg)
    \/ \E i \in DOMAIN inflight : SuggestDataTypesFailed(i)
    \/ ClickConvertTypes
    \/ \E n \in 0 .. 1 : handleConfirmConversions(n)
    \/ \E i \in DOMAIN inflight, s \in SummaryOpts : ConvertTypesDone(i, s)
    \/ \E i \in DOMAIN inflight : ConvertTypesFailed(i)
    \/ ClickImputeNulls
    \/ \E n \in 0 .. 1 : handleConfirmImputations(n)
    \/ \E i \in DOMAIN inflight, s \in SummaryOpts : ImputeNullsDone(i, s)
    \/ \E i \in DOMAIN inflight : ImputeNullsFailed(i)
    \/ OpenDropColumns
    \/ \E n \in 0 .. 1 : handleConfirmDrop(n)
    \/ \E i \in DOMAIN inflight, s \in SummaryOpts : DropColumnsDone(i, s)
    \/ \E i \in DOMAIN inflight : DropColumnsFailed(i)
    \/ OpenExportCsv
    \/ handleDownload
    \/ \E i \in DOMAIN inflight : ExportCsvDone(i)
    \/ \E i \in DOMAIN inflight : ExportCsvFailed(i)
    \/ CloseModal

Spec == Init /\ [][Next]_vars

\* The report: users sign in and out, select and upload projects, and switch
\* between the tabs; EdaView fetches the report of the active project.
\* EdaView reads nothing of a profile but its project_name, so here every
\* response carries the same profile.
NextEda ==
    \/ \E p \in ProjIds : handleSelectProject(p)
    \/ \E i \in DOMAIN inflight :
           SelectProjectLoaded(i, Profile("no_nulls", "name"))
    \/ \E i \in DOMAIN inflight : SelectProjectFailed(i)
    \/ \E p \in ProjIds : handleFileUpload(p, Profile("no_nulls", "name"))
    \/ \E t \in {"Data Cleaning", "EDA"} : setActiveTab(t)
    \/ \E i \in DOMAIN inflight : EdaCallDone(i)
    \/ \E i \in DOMAIN inflight : EdaCallFailed(i)
    \/ fetchEdaData
    \/ logout
    \/ \E u \in UserIds : login(u)

SpecEda == Init /\ [][NextEda]_vars

\* The report's charts: projects are uploaded and selected, the first
\* wizard step is run, the tab is switched, the report is fetched from a
\* backend that suggests the two charts of ChartSuggestions, and the cards
\* fetch their data.
NextChart ==
    \/ handleAutoClean
    \/ \E i \in DOMAIN inflight : AutoCleanDone(i, "no_nulls")
    \/ \E i \in DOMAIN inflight : AutoCleanFailed(i)
    \/ \E p \in ProjIds : handleFileUpload(p, Profile("no_nulls", "name"))
    \/ \E p \in ProjIds : handleSelectProject(p)
    \/ \E i \in DOMAIN inflight :
           SelectProjectLoaded(i, Profile("no_nulls", "name"))
    \/ \E t \in {"Data Cleaning", "EDA"} : setActiveTab(t)
    \/ \E i \in DOMAIN inflight : EdaCallAnswered(i, ChartSuggestions)
    \/ \E i \in DOMAIN inflight : EdaCallFailed(i)
    \/ fetchEdaData
    \/ VisualizationCardEffects
    \/ \E i \in DOMAIN inflight : ChartDataLoaded(i)
    \/ \E i \in DOMAIN inflight : ChartDataFailed(i)

SpecChart == Init /\ [][NextChart]_vars

\* Expiry of the backend session: calls of the dashboard, of the first two
\* wizard steps and of EdaView, each of which may answer 401; responses may
\* still arrive after the expiry.
NextAuth ==
    \/ \E p \in ProjIds : handleSelectProject(p)
    \/ \E i \in DOMAIN inflight :
           SelectProjectLoaded(i, Profile("no_nulls", "name"))
    \/ handleAutoClean
    \/ \E i \in DOMAIN inflight : AutoCleanDone(i, "no_nulls")
    \/ handleFindDuplicates
    \/ \E t \in {"Data Cleaning", "EDA"} : setActiveTab(t)
    \/ \E i \in DOMAIN inflight : EdaCallDone(i)
    \/ \E i \in DOMAIN inflight : Unauthorized(i)
    \/ fetchProjectsUnauthorized

SpecAuth == Init /\ [][NextAuth]_vars

\* The application found with texts left in localStorage by anything that
\* wrote to the browser profile before: under each user's key nothing, or a
\* text that is not JSON.  User 1 is signed in and the load effect has run.
InitStored ==
    /\ projectSessions = <<>>
    /\ activeProjectId = Null
    /\ activeTab = "Data Cleaning"
    /\ isProjectLoading = FALSE
    /\ isSessionModalOpen = FALSE
    /\ stepUI = DefaultUI
    /\ inflight = <<>>
    /\ user = 1
    /\ authSession = LoginAuth(1).session
    /\ isAuthenticated = TRUE
    /\ authStorage = LoginAuth(1).stored
    /\ storage \in [UserIds -> {<<>>, <<Malformed>>}]
    /\ edaUI = DefaultEda
    /\ chartDataState = DefaultCharts
    /\ loadingChartId = <<>>
    /\ lastEvent = Event("done", "login", Null, <<>>)
    /\ orphaned = 0

\* Persistence: users sign in and out, select and upload projects and run
\* the first wizard step; the store is saved and loaded.
NextStorage ==
    \/ \E p \in ProjIds : handleSelectProject(p)
    \/ \E i \in DOMAIN inflight :
           SelectProjectLoaded(i, Profile("no_nulls", "name"))
    \/ \E p \in ProjIds : handleFileUpload(p, Profile("no_nulls", "name"))
    \/ handleAutoClean
    \/ \E i \in DOMAIN inflight : AutoCleanDone(i, "no_nulls")
    \/ logout
    \/ \E u \in UserIds : login(u)

SpecStorage == InitStored /\ [][NextStorage]_vars

----------------------------------------------------------------------------
(* The AuthProvider from the page load on *)

\* The texts a browser profile may hold under the key user.
StoredUsers == {<<>>, <<MalformedUser>>} \cup {<<UserText(u)>> : u \in UserIds}

\* The texts a browser profile may hold under the key access_token.
StoredTokens == {<<>>} \cup {<<AccessToken(u)>> : u \in UserIds}

\* AuthProvider's mount effect on the items stored: with both items, the
\* user is parsed and the three states are set; when JSON.parse throws,
\* localStorage.clear().
MountAuth(stored) ==
    IF stored.access_token # <<>> /\ stored.user # <<>>
    THEN IF stored.user[1].syntax = "ok"
         THEN [user |-> stored.user[1].id,
               session |-> stored.access_token,
               isAuthenticated |-> TRUE,
               stored |-> stored,
               cleared |-> FALSE]
         ELSE [user |-> Null, session |-> <<>>, isAuthenticated |-> FALSE,
               stored |-> [access_token |-> <<>>, user |-> <<>>],
               cleared |-> TRUE]
    ELSE [user |-> Null, session |-> <<>>, isAuthenticated |-> FALSE,
          stored |-> stored, cleared |-> FALSE]

\* The page has loaded with any items under access_token and user, and with
\* nothing or a text that is not JSON under each user's key; the mount
\* effect of AuthProvider and the load effect of ProjectProvider have run.
InitAuthProvider ==
    \E token \in StoredTokens, storedUser \in StoredUsers,
       store \in [UserIds -> {<<>>, <<Malformed>>}] :
        LET mounted == MountAuth([access_token |-> token, user |-> storedUser])
        IN  /\ projectSessions = <<>>
            /\ activeProjectId = Null
            /\ activeTab = "Data Cleaning"
            /\ isProjectLoading = FALSE
            /\ isSessionModalOpen = FALSE
            /\ stepUI = DefaultUI
            /\ inflight = <<>>
            /\ user = mounted.user
            /\ authSession = mounted.session
            /\ isAuthenticated = mounted.isAuthenticated
            /\ authStorage = mounted.stored
            /\ storage = IF mounted.cleared THEN [u \in UserIds |-> <<>>]
                         ELSE store
            /\ edaUI = DefaultEda
            /\ chartDataState = DefaultCharts
            /\ loadingChartId = <<>>
            /\ lastEvent = Event("done", "mount", Null, <<>>)
            /\ orphaned = 0

\* Signing in and out, by the user and by an expired backend session, while
\* projects are selected and the first wizard step runs.
NextAuthProvider ==
    \/ \E u \in UserIds : login(u)
    \/ logout
    \/ \E p \in ProjIds : handleSelectProject(p)
    \/ \E i \in DOMAIN inflight :
           SelectProjectLoaded(i, Profile("no_nulls", "name"))
    \/ handleAutoClean
    \/ \E i \in DOMAIN inflight : AutoCleanDone(i, "no_nulls")
    \/ \E i \in DOMAIN inflight : Unauthorized(i)
    \/ fetchProjectsUnauthorized

SpecAuthProvider == InitAuthProvider /\ [][NextAuthProvider]_vars

----------------------------------------------------------------------------
(* One session worked through the wizard by a user who stays on it *)

\* A CSV has just been uploaded as project 7: its session is at initial and
\* active, and the store is saved.
InitLive ==
    \E pr \in StatusProfiles :
        LET ps == setActiveProjectStore(<<>>, 7, pr)
        IN  /\ projectSessions = ps
            /\ activeProjectId = 7
            /\ activeTab = "Data Cleaning"
            /\ isProjectLoading = FALSE
            /\ isSessionModalOpen = FALSE
            /\ stepUI = DefaultUI
            /\ inflight = <<>>
            /\ user = 1
            /\ authSession = LoginAuth(1).session
            /\ isAuthenticated = TRUE
            /\ authStorage = LoginAuth(1).stored
            /\ storage = SaveEffect([u \in UserIds |-> <<>>], 1, ps)
            /\ edaUI = DefaultEda
            /\ chartDataState = DefaultCharts
            /\ loadingChartId = <<>>
            /\ lastEvent = Event("done", "upload-csv", 7, <<pr>>)
            /\ orphaned = 0

\* The button of the step that is shown.
ActivateStep ==
    \/ handleAutoClean
    \/ handleFindDuplicates
    \/ OpenHandleDuplicates
    \/ handleSuggestDataTypes
    \/ ClickConvertTypes
    \/ ClickImputeNulls
    \/ OpenDropColumns

\* The decision in the modal of the step that is shown.
DecideStep ==
    \/ handleConfirm
    \/ handleCancel
    \/ \E n \in 0 .. 1 : handleConfirmConversions(n)
    \/ \E n \in 0 .. 1 : handleConfirmImputations(n)
    \/ \E n \in 0 .. 1 : handleConfirmDrop(n)

\* A step call answers ok.
StepSucceeds ==
    \/ \E i \in DOMAIN inflight, s \in Summaries : AutoCleanDone(i, s)
    \/ \E i \in DOMAIN inflight : FindDuplicatesDone(i)
    \/ \E i \in DOMAIN inflight, s \in SummaryOpts : HandleDuplicatesDone(i, s)
    \/ \E i \in DOMAIN inflight : SuggestDataTypesDone(i, <<>>)
    \/ \E i \in DOMAIN inflight, s \in SummaryOpts : ConvertTypesDone(i, s)
    \/ \E i \in DOMAIN inflight, s \in SummaryOpts : ImputeNullsDone(i, s)
    \/ \E i \in DOMAIN inflight, s \in SummaryOpts : DropColumnsDone(i, s)

\* A step call fails.
StepFails ==
    \/ \E i \in DOMAIN inflight : AutoCleanFailed(i)
    \/ \E i \in DOMAIN inflight : FindDuplicatesFailed(i)
    \/ \E i \in DOMAIN inflight : HandleDuplicatesFailed(i)
    \/ \E i \in DOMAIN inflight : SuggestDataTypesFailed(i)
    \/ \E i \in DOMAIN inflight : ConvertTypesFailed(i)
    \/ \E i \in DOMAIN inflight : ImputeNullsFailed(i)
    \/ \E i \in DOMAIN inflight : DropColumnsFailed(i)

NextLive ==
    \/ ActivateStep
    \/ DecideStep
    \/ StepSucceeds
    \/ StepFails
    \/ CloseModal

\* The user keeps activating the step that is shown and, having opened a
\* modal any number of times, decides in it; a call that is made again and
\* again eventually answers ok.
SpecLive ==
    /\ InitLive
    /\ [][NextLive]_vars
    /\ WF_vars(ActivateStep)
    /\ SF_vars(DecideStep)
    /\ SF_vars(StepSucceeds)

----------------------------------------------------------------------------
(* ProjectProvider's functions, called by a consumer of the context *)

\* The partial session objects the callers of updateCurrentSession pass.
Updates ==
    {[actionStep |-> "handle_duplicates",
      agentMessages |-> <<Msg("info", "find_duplicates")>>],
     [profile |-> Profile("no_nulls", "undefined"),
      agentMessages |-> <<>>, actionStep |-> "suggest_types"],
     [typeSuggestions |-> <<Suggestion>>],
     [edaResults |-> newEdaResults]}

\* setActiveProject({project_id, profile})
setActiveProject(project_id, profile) ==
    /\ user # Null
    /\ Commit(setActiveProjectStore(projectSessions, project_id, profile),
              project_id, activeTab, isProjectLoading, stepUI, inflight,
              Event("call", "setActiveProject", project_id, <<profile>>))

\* setActiveProject(null)
setActiveProjectNull ==
    /\ user # Null
    /\ Commit(projectSessions, Null, activeTab, isProjectLoading, stepUI,
              inflight, Event("call", "setActiveProject", Null, <<>>))

\* updateCurrentSession(updates), called from the current render
callUpdateCurrentSession(updates) ==
    /\ user # Null
    /\ Commit(updateCurrentSession(projectSessions, activeProjectId, updates),
              activeProjectId, activeTab, isProjectLoading, stepUI, inflight,
              Event("call", "updateCurrentSession", activeProjectId,
                    <<updates>>))

NextStore ==
    \/ \E p \in ProjIds, pr \in StatusProfiles : setActiveProject(p, pr)
    \/ setActiveProjectNull
    \/ \E u \in Updates : callUpdateCurrentSession(u)

SpecStore == Init /\ [][NextStore]_vars

----------------------------------------------------------------------------
(* The wizard's step order *)

\* The chain of the view's onComplete handlers: each names its successor.
StepOrder ==
    <<"initial", "find_duplicates", "handle_duplicates", "suggest_types",
      "convert_types", "impute_nulls", "drop_columns", "export_csv">>

StepNames == {StepOrder[k] : k \in DOMAIN StepOrder}

\* The position of a session's actionStep in the order; 0 for a session
\* without an actionStep of the order.
Position(session) ==
    IF "actionStep" \in DOMAIN session /\ session.actionStep \in StepNames
    THEN CHOOSE k \in DOMAIN StepOrder : StepOrder[k] = session.actionStep
    ELSE 0

----------------------------------------------------------------------------
(* Properties *)

\* C1: a session's actionStep only moves forward through the fixed order:
\* no step of the program takes a session to an earlier step than the one it
\* has reached.
C1_ActionStepNeverMovesBack ==
    [][\A p \in DOMAIN projectSessions :
          p \in DOMAIN projectSessions' =>
              Position(projectSessions'[p]) >= Position(projectSessions[p])]_vars

\* C2: every change of a session's actionStep takes it to the immediate
\* successor of the value it had just before.
C2_ActionStepMovesToSuccessor ==
    [][\A p \in DOMAIN projectSessions :
          (/\ p \in DOMAIN projectSessions'
           /\ Position(projectSessions'[p]) # Position(projectSessions[p]))
          => Position(projectSessions'[p]) = Position(projectSessions[p]) + 1]_vars

\* C3: every session of the store has an actionStep that is one of the
\* defined step names.
C3_ActionStepIsAStepName ==
    \A p \in DOMAIN projectSessions :
        /\ "actionStep" \in DOMAIN projectSessions[p]
        /\ projectSessions[p].actionStep \in StepNames

\* C4: a project's session is found on re-selection as it was when the
\* project was left: from the moment another project is active until the
\* project is active again, no step of the program, the re-selection
\* included, changes its actionStep or its agentMessages.
C4_ReselectionRestoresSession ==
    [][\A p \in DOMAIN projectSessions :
          p # activeProjectId =>
              /\ p \in DOMAIN projectSessions'
              /\ projectSessions'[p].actionStep = projectSessions[p].actionStep
              /\ projectSessions'[p].agentMessages
                     = projectSessions[p].agentMessages]_vars

\* This step is the handler kind of the call op, for a project that has a
\* session in the store.
Ran(kind, op) ==
    /\ lastEvent'.kind = kind
    /\ lastEvent'.op = op
    /\ lastEvent'.pid \in DOMAIN projectSessions
    /\ lastEvent'.pid \in DOMAIN projectSessions'

StepCalls ==
    {"auto-clean", "find-duplicates", "handle-duplicates",
     "suggest-conversions", "convert-types", "impute-nulls", "drop-columns"}

\* C5: setActiveProject for a project that has a session replaces only that
\* session's profile: every other field of the session (actionStep,
\* agentMessages, typeSuggestions) keeps its value, and every other session
\* is unchanged.
C5_SetActiveProjectReplacesOnlyProfile ==
    [][Ran("done", "get-project-status") =>
          \A p \in DOMAIN projectSessions :
              /\ p \in DOMAIN projectSessions'
              /\ projectSessions'[p] =
                     IF p = lastEvent'.pid
                     THEN Spread(projectSessions[p],
                                 [profile |-> lastEvent'.data[1]])
                     ELSE projectSessions[p]]_vars

\* C6: when the call of a wizard step fails, the session's actionStep and
\* agentMessages are unchanged, and a step component that is still shown
\* holds the error as its inline error and is ready to be activated again.
C6_FailedCallLeavesSessionUnchanged ==
    [][\A op \in StepCalls :
          Ran("failed", op) =>
              LET p == lastEvent'.pid
              IN  /\ projectSessions'[p].actionStep = projectSessions[p].actionStep
                  /\ projectSessions'[p].agentMessages
                         = projectSessions[p].agentMessages
                  /\ \E i \in DOMAIN inflight :
                         /\ inflight[i].op = op
                         /\ inflight[i].pid = p
                         /\ inflight' = Remove(inflight, i)
                         /\ inflight[i].alive =>
                                /\ stepUI'.error # ""
                                /\ ~stepUI'.isProcessing
                                /\ Mounted' = Mounted]_vars

\* C7: a skip action issues no backend request, appends exactly one entry
\* of kind info to the session's agentMessages, leaves its profile unchanged
\* and advances its actionStep to the next step.
C7_SkipAdvancesWithOneInfoMessage ==
    [][\A step \in StepNames :
          Ran("skip", step) =>
              LET p == lastEvent'.pid
                  before == projectSessions[p]
                  after == projectSessions'[p]
              IN  /\ before.actionStep = step
                  /\ [j \in DOMAIN inflight' |-> inflight'[j].op]
                         = [j \in DOMAIN inflight |-> inflight[j].op]
                  /\ Len(after.agentMessages) = Len(before.agentMessages) + 1
                  /\ SubSeq(after.agentMessages, 1, Len(before.agentMessages))
                         = before.agentMessages
                  /\ HasType(after.agentMessages[Len(after.agentMessages)], "info")
                  /\ after.profile = before.profile
                  /\ Position(after) = Position(before) + 1]_vars

\* C7 happens: the user continued past the impute step of a profile without
\* nulls, and the session is at drop_columns with the info entry.
C7_Witness ==
    /\ lastEvent.kind = "skip"
    /\ lastEvent.op = "impute_nulls"
    /\ lastEvent.pid \in DOMAIN projectSessions
    /\ LET session == projectSessions[lastEvent.pid]
       IN  /\ session.profile.summary = "no_nulls"
           /\ session.actionStep = "drop_columns"
           /\ session.agentMessages[Len(session.agentMessages)]
                  = Msg("info", "impute_nulls")

\* C8: when a step call completes with a new_profile_summary, the session's
\* profile becomes exactly the returned profile; when it completes without
\* one, the session's profile is kept as it is.
C8_ProfileReplacedOrKept ==
    [][\A op \in StepCalls :
          Ran("done", op) =>
              LET p == lastEvent'.pid
              IN  projectSessions'[p].profile =
                      IF lastEvent'.data # <<>> THEN lastEvent'.data[1]
                      ELSE projectSessions[p].profile]_vars

\* C9: when get-project-status or an upload answers for a project id that
\* has no session in the store, a session is created under that id with
\* actionStep "initial", an empty agentMessages and the returned profile.
C9_FirstSelectionCreatesSession ==
    [][(/\ lastEvent'.kind = "done"
        /\ lastEvent'.op \in {"get-project-status", "upload-csv"}
        /\ lastEvent'.pid \notin DOMAIN projectSessions)
       => /\ lastEvent'.pid \in DOMAIN projectSessions'
          /\ projectSessions'[lastEvent'.pid] =
                 [profile |-> lastEvent'.data[1],
                  agentMessages |-> <<>>,
                  actionStep |-> "initial"]
          /\ activeProjectId' = lastEvent'.pid]_vars

\* C9 happens: an upload has answered with project_id 42, and session 42 is
\* at "initial" with an empty log and the profile of the response.
C9_Witness ==
    /\ lastEvent.kind = "done"
    /\ lastEvent.op = "upload-csv"
    /\ lastEvent.pid = 42
    /\ 42 \in DOMAIN projectSessions
    /\ projectSessions[42].actionStep = "initial"
    /\ projectSessions[42].agentMessages = <<>>
    /\ projectSessions[42].profile = lastEvent.data[1]

\* C10: updateCurrentSession merges the given fields into the session of
\* the active project only: the fields it is given take the given values,
\* the session's other fields keep theirs, every other session is unchanged,
\* and without an active project the store is unchanged.
C10_UpdateMergesIntoActiveSession ==
    [][lastEvent'.op = "updateCurrentSession" =>
          LET updates == lastEvent'.data[1]
              old == SessionOrEmpty(projectSessions, activeProjectId)
          IN  IF activeProjectId = Null
              THEN projectSessions' = projectSessions
              ELSE /\ DOMAIN projectSessions'
                        = DOMAIN projectSessions \cup {activeProjectId}
                   /\ \A p \in DOMAIN projectSessions \ {activeProjectId} :
                          projectSessions'[p] = projectSessions[p]
                   /\ LET new == projectSessions'[activeProjectId]
                      IN  /\ DOMAIN new = DOMAIN old \cup DOMAIN updates
                          /\ \A f \in DOMAIN new :
                                 new[f] = IF f \in DOMAIN updates
                                          THEN updates[f] ELSE old[f]]_vars

\* C10 happens: typeSuggestions has been merged into the active session,
\* which keeps its actionStep, agentMessages and profile, beside the session
\* of another project.
C10_Witness ==
    /\ lastEvent.op = "updateCurrentSession"
    /\ lastEvent.data = << [typeSuggestions |-> <<Suggestion>>] >>
    /\ activeProjectId # Null
    /\ DOMAIN projectSessions = ProjIds
    /\ DOMAIN projectSessions[activeProjectId]
           = {"profile", "agentMessages", "actionStep", "typeSuggestions"}
    /\ projectSessions[activeProjectId].actionStep = "handle_duplicates"

\* C11: export_csv is terminal: a session whose actionStep is export_csv
\* keeps that actionStep in every step of the program, and a CSV download,
\* answered or failed, leaves the whole store as it was.
C11_ExportCsvIsTerminal ==
    [][/\ \A p \in DOMAIN projectSessions :
              (/\ "actionStep" \in DOMAIN projectSessions[p]
               /\ projectSessions[p].actionStep = "export_csv")
              => /\ p \in DOMAIN projectSessions'
                 /\ "actionStep" \in DOMAIN projectSessions'[p]
                 /\ projectSessions'[p].actionStep = "export_csv"
       /\ lastEvent'.op = "export-csv" => projectSessions' = projectSessions]_vars

\* session.agentMessages, empty for a session without the field
MessagesOf(session) ==
    IF "agentMessages" \in DOMAIN session THEN session.agentMessages ELSE <<>>

IsPrefix(s, t) == Len(s) <= Len(t) /\ \A k \in DOMAIN s : s[k] = t[k]

\* C12: agentMessages is append-only: in every step of the program, the log
\* a session had before the step is a prefix of the log it has after it.
C12_AgentMessagesAppendOnly ==
    [][\A p \in DOMAIN projectSessions :
          p \in DOMAIN projectSessions' =>
              IsPrefix(MessagesOf(projectSessions[p]),
                       MessagesOf(projectSessions'[p]))]_vars

\* The kinds of a log entry that the view renders.
MessageKinds == {"log", "info", "suggestions", "error"}

\* C13: every entry of every session's agentMessages is tagged with one of
\* the kinds log, info, suggestions, error.
C13_EveryEntryHasAKind ==
    \A p \in DOMAIN projectSessions :
        \A k \in DOMAIN MessagesOf(projectSessions[p]) :
            \E kind \in MessageKinds :
                HasType(MessagesOf(projectSessions[p])[k], kind)

\* C14: when a suggest-conversions call completes with the list suggestions,
\* the session's typeSuggestions is exactly that list; and the convert_types
\* button opens the review when the session's typeSuggestions is a non-empty
\* list, and completes the step as a skip when it is empty or absent.
C14_TypeSuggestionsAreTheBackendList ==
    [][/\ \A i \in DOMAIN inflight, suggestions \in SuggestionLists :
              SuggestDataTypesDone(i, suggestions) =>
                  LET after == projectSessions'[inflight[i].pid]
                  IN  /\ "typeSuggestions" \in DOMAIN after
                      /\ after.typeSuggestions = suggestions
       /\ ClickConvertTypes =>
              IF /\ "typeSuggestions" \in DOMAIN CurrentSession
                 /\ CurrentSession.typeSuggestions # <<>>
              THEN stepUI'.isModalOpen /\ projectSessions' = projectSessions
              ELSE lastEvent'.kind = "skip" /\ inflight' = inflight]_vars

\* C15: whenever a backend call answers 401, whichever call it is, the
\* session-expired modal is open afterwards.
C15_UnauthorizedOpensSessionModal ==
    [][lastEvent'.kind = "401" => isSessionModalOpen']_vars

\* C16: for a signed-in user, after every step that changes the session
\* store the text under the user's storage key is the whole store as
\* written by the save effect, and loading that text yields a store equal to
\* the store in memory.
C16_StoreSavedAndLoadedEqual ==
    [][(user' # Null /\ projectSessions' # projectSessions) =>
           /\ storage'[user'] = <<stringify(projectSessions')>>
           /\ parse(storage'[user'][1]) = projectSessions']_vars

LoadedFrom(stored) ==
    IF stored = <<>> THEN <<>>
    ELSE IF stored[1].syntax = "ok" THEN parse(stored[1]) ELSE <<>>

\* C18: when a user signs in while the store in memory is the one saved
\* under another user's key (the previous user's sessions), the store
\* afterwards holds exactly the sessions loaded from the new user's key, and
\* the sign-in writes nothing of the previous store under the new user's key.
C18_UserChangeReloadsStore ==
    [][(/\ user = Null
        /\ user' # Null
        /\ DOMAIN projectSessions # {}
        /\ \E u \in UserIds \ {user'} :
               storage[u] = <<stringify(projectSessions)>>) =>
           /\ projectSessions' = LoadedFrom(storage[user'])
           /\ storage'[user'] = storage[user']]_vars

\* The calls of fetchEdaData for the project pid that are under way.
EdaCalls(reqs, pid) ==
    {j \in DOMAIN reqs : IsEdaOp(reqs[j].op) /\ reqs[j].pid = pid}

\* C19: once a session holds edaResults, no step starts a fetchEdaData
\* sequence for its project again: a tab switch or a new selection of the
\* project shows the cached results and issues no eda-summary request.
C19_EdaFetchedAtMostOnce ==
    [][\A p \in ProjIds :
          HasEdaResults(projectSessions, p) =>
              Cardinality(EdaCalls(inflight', p))
                  <= Cardinality(EdaCalls(inflight, p))]_vars

\* The calls of fetchEdaData under way that await the k-th of its requests.
EdaAtStage(reqs, k) ==
    {j \in DOMAIN reqs : reqs[j].op = EdaOps[k]}

ChartCalls(reqs, c, p) ==
    {j \in DOMAIN reqs :
        /\ reqs[j].op = "get-chart-data"
        /\ reqs[j].alive
        /\ reqs[j].chartId = c
        /\ reqs[j].pid = p}

\* C21: chart data of one chart key is never requested by two get-chart-data
\* calls at the same time: at most one call of the mounted view is under way
\* for a chart id of a project, also while several cards load.
C21_ChartFetchedOncePerKey ==
    \A c \in ChartIds : \A p \in ProjIds :
        Cardinality(ChartCalls(inflight, c, p)) <= 1

\* The handler that ran last was started by the user: a click that issues a
\* request (a step button, Try Again), a tab button, or the selection or
\* upload of a project, whose response makes the project active.
UserInitiated(ev) ==
    \/ ev.kind = "request" /\ ev.op # "get-chart-data"
    \/ ev.kind = "tab"
    \/ ev.op \in {"get-project-status", "upload-csv"}

\* C22: no operation is retried by the code on its own.  While EdaView shows
\* the error of a failed report fetch, a new report call for the same
\* project is issued only by a handler the user started; a card's effect
\* never requests a chart whose call has failed (its error is held under
\* the chart id); and the step in which a call fails issues no call of the
\* same operation.
C22_NoAutomaticRetry ==
    [][/\ \A p \in ProjIds :
              (/\ Mounted = "EdaView"
               /\ edaUI.error # ""
               /\ activeProjectId = p
               /\ Cardinality(EdaCalls(inflight', p))
                      > Cardinality(EdaCalls(inflight, p))) =>
                  UserInitiated(lastEvent')
       /\ (lastEvent'.kind = "request" /\ lastEvent'.op = "get-chart-data") =>
              \A j \in DOMAIN inflight' :
                  j > Len(inflight) => chartDataState[inflight'[j].chartId] = <<>>
       /\ lastEvent'.kind = "failed" =>
              \A j \in DOMAIN inflight' :
                  ~(inflight'[j].op = lastEvent'.op
                      /\ inflight'[j].pid = lastEvent'.pid
                      /\ j > Len(inflight) - 1)]_vars

\* The step calls under way for the session of project p: every call of a
\* step component but the export download, which changes nothing.
StepRequests(reqs, p) ==
    {j \in DOMAIN reqs : reqs[j].op \in StepCalls /\ reqs[j].pid = p}

\* C23: in every reachable state at most one mutating step request is in
\* flight for any one session.
C23_OneStepRequestPerSession ==
    \A p \in ProjIds : Cardinality(StepRequests(inflight, p)) <= 1

\* C24: the response to a request whose component unmounted before it
\* arrived is discarded: the step in which it arrives changes no session of
\* the store.
C24_LateResponseIsDiscarded ==
    [][\A i \in DOMAIN inflight :
          (/\ ~inflight[i].alive
           /\ inflight' = Remove(inflight, i)
           /\ lastEvent'.kind \in {"done", "failed"}
           /\ lastEvent'.op = inflight[i].op
           /\ lastEvent'.pid = inflight[i].pid) =>
              projectSessions' = projectSessions]_vars

C26_SessionsAreComplete ==
    /\ activeProjectId # Null => activeProjectId \in DOMAIN projectSessions
    /\ \A p \in DOMAIN projectSessions :
           {"profile", "agentMessages", "actionStep"}
               \subseteq DOMAIN projectSessions[p]

C28_ChartDataOfActiveProject ==
    ChartsShown =>
        \A c \in ChartIds :
            chartDataState[c] # <<>> =>
                chartDataState[c][1].pid = activeProjectId

\* The edaResults of a session, as a sequence of at most one element.
CachedEda(ps, p) ==
    IF HasEdaResults(ps, p) THEN <<ps[p].edaResults>> ELSE <<>>

SignsOut ==
    \/ logout
    \/ fetchProjectsUnauthorized
    \/ \E i \in DOMAIN inflight : Unauthorized(i)

\* Nothing of a signed-in user is left: the three states are cleared, both
\* items are removed and the Dashboard is not rendered.
AuthCleared ==
    /\ user = Null
    /\ authSession = <<>>
    /\ ~isAuthenticated
    /\ authStorage = [access_token |-> <<>>, user |-> <<>>]
    /\ ~DashboardRendered
    /\ Mounted = "none"

====
